---- MODULE Spec2Model ----
(***************************************************************************)
(* A model of the Function.memoize polyfill (src/polyfill.js): the cache   *)
(* tree of nodes, the weak handles on object keys and results, the        *)
(* finalization registry and its pruning passes, the memory observer and  *)
(* the memoized wrapper.                                                   *)
(***************************************************************************)
EXTENDS Naturals, Sequences, FiniteSets

\* ------------------------------------------------------------------ bounds
MaxCalls == 3
MaxAllocs == 2
\* The idle callbacks a MemoryObserver asks for.
MaxTokens == 5

\* ------------------------------------------------------------------ values
\* A JavaScript value is a record: k its kind, n its content (the text of a
\* primitive; the .type and the name of an object), g the allocation number
\* that tells apart the objects fn creates.
Undefined == [k |-> "undefined", n |-> <<>>, g |-> 0]
NO_VALUE == [k |-> "symbol", n |-> <<"NO_VALUE">>, g |-> 0]
Prim(s) == [k |-> "primitive", n |-> <<s>>, g |-> 0]
Obj(type, name) == [k |-> "object", n |-> <<type, name>>, g |-> 0]

Dog1 == Obj("dog", "d1")
Dog2 == Obj("dog", "d2")
PrimX == Prim("x")

\* What the callers pass: a primitive, undefined, and two distinct objects
\* that are structurally equal (same .type).
ArgVals == {Undefined, PrimX, Dog1, Dog2}
\* The argument lists of the calls: one or two arguments, among them a path
\* and its extension, the same path through either object, and undefined in
\* either position.
ArgTuples ==
  { <<PrimX>>, <<Undefined>>, <<Dog1>>, <<Dog2>>,
    <<Dog1, PrimX>>, <<PrimX, Dog1>>, <<PrimX, Undefined>> }

\* The wrapped functions the program creates.
WrapperIds == {1}

\* A function passed as an argument (typeof "function").
Callback == [k |-> "function", n |-> <<"cb">>, g |-> 0]
\* The programs with two wrapped functions: their argument lists.
WideWrapperIds == {1, 2}
WideTuples == { <<Dog1>>, <<Callback>> }

isNonNullObject(o) == o.k = "object" \/ o.k = "array"
isWeakRef(wr) == wr.k = "WeakRef"
\* new WeakRef(o): the handle remembers its referent, and holds nothing.
WeakRef(o) == [k |-> "WeakRef", n |-> o.n, g |-> o.g]
Referent(wr) == [k |-> "object", n |-> wr.n, g |-> wr.g]

createNode == [cache |-> <<>>, value |-> NO_VALUE]

\* A comparator that takes structurally equal objects for the same object.
structuralEquality(a, b) ==
  \/ a = b
  \/ a.k = "object" /\ b.k = "object" /\ a.n[1] = b.n[1]
referenitalEquality(a, b) == a = b
\* The README's compare: a === b, or both objects with the same .type.
compareByType(a, b) ==
  \/ a = b
  \/ /\ a.k = "object" /\ b.k = "object"
     /\ a.n[1] = b.n[1]
Compare(c, a, b) ==
  IF c = "type" THEN compareByType(a, b) ELSE referenitalEquality(a, b)

\* ------------------------------------------------------------ user functions
\* The text a value contributes to a template string: an object contributes
\* its .type, an array its elements.
Text(v) ==
  IF v.k = "undefined" THEN <<"undefined">>
  ELSE IF v.k = "object" THEN <<v.n[1]>>
  ELSE IF v.k = "array" THEN <<"[">> \o v.n \o <<"]">>
  ELSE v.n
RECURSIVE Texts(_)
Texts(list) == IF list = <<>> THEN <<>> ELSE Text(Head(list)) \o Texts(Tail(list))
\* The array a select returns, when it is handed on as one value.
Array(list) == [k |-> "array", n |-> Texts(list), g |-> 0]

\* select in the README's style: the first argument's .type, then the rest.
Select(args) == <<Prim(Head(args).n[1])>> \o Tail(args)
\* hash in the README's style: one string made of the .type of objects and
\* the text of everything else.
Hash(list) == [k |-> "primitive", n |-> <<"#">> \o Texts(list), g |-> 0]
\* The README's select and hash read target.type: their domain is the
\* argument lists that start with an object.
InDomain(w, args) ==
  (w.hash \/ w.select) => (Len(args) >= 1 /\ Head(args).k = "object")

\* The memoized function fn: pure, throwing on an undefined first argument,
\* returning a new object when its last argument is the primitive and a
\* primitive otherwise.  The result carries the arguments it was computed from.
Name(v) ==
  IF v.k = "undefined" THEN "undefined"
  ELSE IF v.k = "object" THEN v.n[2] ELSE v.n[1]
RECURSIVE Names(_)
Names(list) == IF list = <<>> THEN <<>> ELSE <<Name(Head(list))>> \o Names(Tail(list))
FnThrows(args) == Len(args) >= 1 /\ Head(args) = Undefined
FnReturnsObject(args) == Len(args) >= 1 /\ args[Len(args)] = PrimX
FnResult(args, alloc) ==
  IF FnReturnsObject(args)
  THEN [k |-> "object", n |-> <<"fn">> \o Names(args), g |-> alloc]
  ELSE [k |-> "primitive", n |-> <<"fn">> \o Names(args), g |-> 0]

\* ------------------------------------------------------------ the cache tree
\* ns is the heap of nodes (a node is its index), dead the set of reclaimed
\* objects.
Deref(wr, dead) == IF Referent(wr) \in dead THEN Undefined ELSE Referent(wr)

\* The index of the first entry of the node's Map whose key matches, 0 if none.
RECURSIVE MatchFrom(_, _, _, _, _)
MatchFrom(entries, i, key, c, dead) ==
  IF i > Len(entries) THEN 0
  ELSE LET k == entries[i].k
           key0 == IF isWeakRef(k) THEN Deref(k, dead) ELSE k
       IN IF Compare(c, key0, key) THEN i
          ELSE MatchFrom(entries, i + 1, key, c, dead)
\* getNode: the child node, or 0 for null.
getNode(ns, node, key, c, dead) ==
  LET i == MatchFrom(ns[node].cache, 1, key, c, dead)
  IN IF i = 0 THEN 0 ELSE ns[node].cache[i].node

\* The leaf node the key path leads to, or 0.
RECURSIVE Descend(_, _, _, _, _)
Descend(ns, node, keys, c, dead) ==
  IF keys = <<>> THEN node
  ELSE LET nxt == getNode(ns, node, Head(keys), c, dead)
       IN IF nxt = 0 THEN 0 ELSE Descend(ns, nxt, Tail(keys), c, dead)

getValueAt(ns, node, c, keys, dead) ==
  LET leaf == Descend(ns, node, keys, c, dead)
  IN IF leaf = 0 THEN NO_VALUE
     ELSE IF isWeakRef(ns[leaf].value) THEN Deref(ns[leaf].value, dead)
     ELSE ns[leaf].value

\* An insertion that replaces the Map of a node by the new entry.
RECURSIVE setValueAtReplacing(_, _, _, _, _, _, _)
setValueAtReplacing(ns, reg, node, c, value, keys, dead) ==
  IF keys = <<>>
  THEN [nodes |-> [ns EXCEPT ![node].value =
                     IF isNonNullObject(value) THEN WeakRef(value) ELSE value],
        registered |-> reg]
  ELSE LET key == Head(keys)
           nxt == getNode(ns, node, key, c, dead)
           new == Len(ns) + 1
           boxed == IF isNonNullObject(key) THEN WeakRef(key) ELSE key
       IN IF nxt = 0
          THEN setValueAtReplacing(
                 Append([ns EXCEPT ![node].cache = <<[k |-> boxed, node |-> new]>>],
                        createNode),
                 IF isNonNullObject(key) THEN reg \cup {<<key, node>>} ELSE reg,
                 new, c, value, Tail(keys), dead)
          ELSE setValueAtReplacing(ns, reg, nxt, c, value, Tail(keys), dead)

\* setValueAt: the new heap of nodes and the new registrations of the
\* finalization registry (object key, the node whose Map holds it).
RECURSIVE setValueAt(_, _, _, _, _, _, _)
setValueAt(ns, reg, node, c, value, keys, dead) ==
  IF keys = <<>>
  THEN [nodes |-> [ns EXCEPT ![node].value =
                     IF isNonNullObject(value) THEN WeakRef(value) ELSE value],
        registered |-> reg]
  ELSE LET key == Head(keys)
           nxt == getNode(ns, node, key, c, dead)
           new == Len(ns) + 1
           boxed == IF isNonNullObject(key) THEN WeakRef(key) ELSE key
       IN IF nxt = 0
          THEN setValueAt(
                 Append([ns EXCEPT ![node].cache = Append(@, [k |-> boxed, node |-> new])],
                        createNode),
                 IF isNonNullObject(key) THEN reg \cup {<<key, node>>} ELSE reg,
                 new, c, value, Tail(keys), dead)
          ELSE setValueAt(ns, reg, nxt, c, value, Tail(keys), dead)

\* A pass that drops every entry keyed by a WeakRef, empty or not.
pruneEveryWeakRef(entries, dead) ==
  SelectSeq(entries, LAMBDA e : ~isWeakRef(e.k))
\* pruneNodeCache: the Map without the entries keyed by an empty WeakRef.
pruneNodeCache(entries, dead) ==
  SelectSeq(entries, LAMBDA e : ~(isWeakRef(e.k) /\ Deref(e.k, dead) = Undefined))

\* The nodes of the tree below a node, the node included.
RECURSIVE SubTree(_, _)
SubTree(ns, node) ==
  {node} \cup UNION {SubTree(ns, ns[node].cache[i].node) : i \in 1..Len(ns[node].cache)}

\* -------------------------------------------------------- the memory observer
\* A heap sample {usedJSHeapSize, jsHeapSizeLimit}.
Samples == {[used |-> 5, limit |-> 10], [used |-> 8, limit |-> 10]}
\* usedJSHeapSize / jsHeapSizeLimit >= 0.8
shouldBeConstrained(s) == s.used * 10 >= s.limit * 8
\* The samples of the programs with two wrapped functions: a second sample
\* above the threshold.
WideSamples == Samples \cup {[used |-> 9, limit |-> 10]}
\* A flush test that ignores the mode the program is in.
highSample(s, constrained) == shouldBeConstrained(s)
\* shouldBeConstrained && !isSystemMemoryConstrained
risingEdge(s, constrained) == shouldBeConstrained(s) /\ ~constrained

\* ---------------------------------------------------------------- the state
VARIABLES
  nodes,                      \* the heap of nodes created by createNode
  wrappers,                   \* the closures Function.memoize returned
  cacheInstances,             \* the Set of WeakRefs to root nodes
  isSystemMemoryConstrained,
  observing,                  \* notify is scheduled as an idle callback
  sample,                     \* the sample the observer's callback saw last
  reclaimed,                  \* the objects the garbage collector has freed
  registered,                 \* the FinalizationRegistry: <<object, node>>
  idle,                       \* the nodes with a pruning pass scheduled
  allocs,                     \* the number of objects fn has created
  calls,                      \* the number of calls of wrapped functions
  stored,                     \* history: the insertions that completed
  last,                       \* history: the last call of a wrapped function
  observer                    \* a MemoryObserver made by the caller

vars == <<nodes, wrappers, cacheInstances, isSystemMemoryConstrained, observing,
          sample, reclaimed, registered, idle, allocs, calls, stored, last,
          observer>>

NoCall ==
  [w |-> 0, args |-> <<>>, keys |-> <<>>, out |-> "none", ret |-> Undefined,
   invoked |-> FALSE, constrained |-> FALSE, quiet |-> FALSE, rep |-> FALSE,
   prevRet |-> Undefined, viaDead |-> FALSE, deadLeaf |-> FALSE,
   seen |-> {}]

\* The module is loaded: memoryObserver.observe() has run the callback once,
\* on an empty cacheInstances.
Init ==
  /\ nodes = <<>>
  /\ wrappers = <<>>
  /\ cacheInstances = <<>>
  /\ sample \in Samples
  /\ isSystemMemoryConstrained = shouldBeConstrained(sample)
  /\ observing = TRUE
  /\ reclaimed = {}
  /\ registered = {}
  /\ idle = {}
  /\ allocs = 0
  /\ calls = 0
  /\ stored = {}
  /\ last = NoCall
  /\ observer = [pending |-> {}, cancelToken |-> 0, issued |-> 0,
                 stopped |-> FALSE, resumed |-> FALSE]

\* ------------------------------------------------------------ Function.memoize
\* The options objects passed to memoize.
Options ==
  { [hash |-> "none", select |-> "none", compare |-> "none"],
    [hash |-> "none", select |-> "none", compare |-> "function"],
    [hash |-> "function", select |-> "none", compare |-> "none"],
    [hash |-> "none", select |-> "function", compare |-> "function"],
    [hash |-> "function", select |-> "function", compare |-> "none"] }

\* The options of the programs with two wrapped functions: no options
\* object, and values that are not functions.
WideOptions ==
  { [hash |-> "no options", select |-> "no options", compare |-> "no options"],
    [hash |-> "string", select |-> "object", compare |-> "number"] }

\* An option test that takes any value that is present for a function.
isPresent(v) == v \notin {"none", "no options"}
\* opts && typeof opts.x === "function"
isFunction(v) == v = "function"

\* A root that every wrapped function shares.
sharedRootNode(ns) == 1
\* const rootNode = createNode(): a node of its own.
rootNode(ns) == Len(ns) + 1

\* memoize(fn, opts), in a program that creates the wrapped functions ids.
MemoizeIn(ids, opts) ==
  /\ Len(wrappers) < Cardinality(ids)
  /\ nodes' = Append(nodes, createNode)
  /\ wrappers' = Append(wrappers,
       [root |-> rootNode(nodes),
        hash |-> isFunction(opts.hash),
        select |-> isFunction(opts.select),
        compare |-> IF isFunction(opts.compare) THEN "type" ELSE "ref",
        live |-> TRUE,
        opts |-> opts])
  /\ cacheInstances' = Append(cacheInstances, rootNode(nodes))
  /\ UNCHANGED observer
  /\ UNCHANGED <<isSystemMemoryConstrained, observing, sample, reclaimed,
                 registered, idle, allocs, calls, stored, last>>

Memoize(opts) == MemoizeIn(WrapperIds, opts)

\* The program drops a wrapped function: its closure and root are collected.
Release(w) ==
  /\ w \in 1..Len(wrappers)
  /\ wrappers[w].live
  /\ wrappers' = [wrappers EXCEPT ![w].live = FALSE]
  /\ UNCHANGED observer
  /\ UNCHANGED <<nodes, cacheInstances, isSystemMemoryConstrained, observing,
                 sample, reclaimed, registered, idle, allocs, calls, stored, last>>

\* ------------------------------------------------------- the wrapped function
\* A key resolver that lets select take precedence over hash.
KeyPathSelectFirst(w, args) ==
  IF w.select THEN Select(args)
  ELSE IF w.hash THEN <<Hash(args)>>
  ELSE args
\* The keys of a call (the wrapper's first statement).
KeyPath(w, args) ==
  IF w.hash /\ w.select THEN <<Hash(<<Array(Select(args))>>)>>
  ELSE IF w.hash THEN <<Hash(args)>>
  ELSE IF w.select THEN Select(args)
  ELSE args

\* History: the traversal of the key path matched an entry whose key is an
\* empty WeakRef.
RECURSIVE ViaDead(_, _, _, _, _)
ViaDead(ns, node, keys, c, dead) ==
  IF keys = <<>> THEN FALSE
  ELSE LET i == MatchFrom(ns[node].cache, 1, Head(keys), c, dead)
       IN IF i = 0 THEN FALSE
          ELSE LET e == ns[node].cache[i]
               IN \/ isWeakRef(e.k) /\ Deref(e.k, dead) = Undefined
                  \/ ViaDead(ns, e.node, Tail(keys), c, dead)
\* History: the key path leads to a leaf whose value is an empty WeakRef.
DeadLeaf(ns, node, keys, c, dead) ==
  LET leaf == Descend(ns, node, keys, c, dead)
  IN /\ leaf # 0
     /\ isWeakRef(ns[leaf].value)
     /\ Deref(ns[leaf].value, dead) = Undefined

\* History: the keys the tree holds along the key path, unboxed.
RECURSIVE PathKeys(_, _, _, _, _)
PathKeys(ns, node, keys, c, dead) ==
  IF keys = <<>> THEN <<>>
  ELSE LET i == MatchFrom(ns[node].cache, 1, Head(keys), c, dead)
           e == ns[node].cache[i]
       IN IF i = 0 THEN <<>>
          ELSE <<IF isWeakRef(e.k) THEN Referent(e.k) ELSE e.k>>
               \o PathKeys(ns, e.node, Tail(keys), c, dead)

\* Two argument lists equal pairwise under the comparator, the earlier first.
PairwiseEqual(c, a, b) ==
  /\ Len(a) = Len(b)
  /\ \A i \in 1..Len(a) : Compare(c, a[i], b[i])

LiveArgs(args) == \A i \in 1..Len(args) : args[i] \notin reclaimed

Call(w, args) ==
  /\ calls < MaxCalls
  /\ w \in 1..Len(wrappers)
  /\ wrappers[w].live
  /\ InDomain(wrappers[w], args)
  /\ LiveArgs(args)
  /\ LET W == wrappers[w]
         c == W.compare
         keys == KeyPath(W, args)
         found == getValueAt(nodes, W.root, c, keys, reclaimed)
         value == FnResult(args, allocs + 1)
         out == IF found # NO_VALUE THEN "hit"
                ELSE IF FnThrows(args) THEN "fnError"
                \* rootNode = createNode() assigns to a const binding
                ELSE IF isSystemMemoryConstrained THEN "TypeError"
                ELSE "miss"
         invoked == found = NO_VALUE
         set == setValueAt(nodes, registered, W.root, c, value, keys, reclaimed)
     IN /\ (invoked /\ ~FnThrows(args) /\ FnReturnsObject(args)) => allocs < MaxAllocs
        /\ nodes' = IF out = "miss" THEN set.nodes ELSE nodes
        /\ registered' = IF out = "miss" THEN set.registered ELSE registered
        /\ allocs' = IF invoked /\ ~FnThrows(args) /\ FnReturnsObject(args)
                     THEN allocs + 1 ELSE allocs
        /\ stored' = IF out = "miss"
                     THEN stored \cup
                            {[w |-> w, probe |-> keys, value |-> value,
                              keys |-> PathKeys(set.nodes, W.root, keys, c, reclaimed)]}
                     ELSE stored
        /\ last' =
             [w |-> w, args |-> args, keys |-> keys, out |-> out,
              ret |-> IF out = "hit" THEN found
                      ELSE IF out = "miss" THEN value ELSE Undefined,
              invoked |-> invoked,
              constrained |-> isSystemMemoryConstrained,
              quiet |-> TRUE,
              rep |-> /\ last.out \in {"hit", "miss"}
                      /\ last.w = w
                      /\ last.quiet
                      /\ ~last.constrained
                      /\ ~isSystemMemoryConstrained
                      /\ PairwiseEqual(c, last.args, args),
              prevRet |-> last.ret,
              viaDead |-> ViaDead(nodes, W.root, keys, c, reclaimed),
              deadLeaf |-> DeadLeaf(nodes, W.root, keys, c, reclaimed),
              seen |-> stored]
  /\ calls' = calls + 1
  /\ UNCHANGED observer
  /\ UNCHANGED <<wrappers, cacheInstances, isSystemMemoryConstrained, observing,
                 sample, reclaimed, idle>>

\* ------------------------------------------------------ the garbage collector
\* The objects that exist: the callers' objects and the results fn created
\* that the cache still refers to.
Objects ==
  {Dog1, Dog2} \cup
  {Referent(nodes[i].value) : i \in {j \in 1..Len(nodes) : isWeakRef(nodes[j].value)}}

\* A registry callback that asks for no idle callback.
scheduleNothing(reg, o) == {}
\* schedulePruning: one idle callback per Map the object was registered with.
schedulePruning(reg, o) == {r[2] : r \in {q \in reg : q[1] = o}}

\* An object nothing refers to strongly is collected; the registry's callback
\* schedulePruning asks for an idle callback per registration.
Reclaim(o) ==
  /\ o \in Objects \ reclaimed
  /\ reclaimed' = reclaimed \cup {o}
  /\ idle' = idle \cup schedulePruning(registered, o)
  /\ last' = [last EXCEPT !.quiet = FALSE]
  /\ UNCHANGED observer
  /\ UNCHANGED <<nodes, wrappers, cacheInstances, isSystemMemoryConstrained,
                 observing, sample, registered, allocs, calls, stored>>

\* The nodes a live wrapper reaches; the Map of any other may be collected.
Reachable ==
  UNION {SubTree(nodes, wrappers[w].root) :
           w \in {v \in 1..Len(wrappers) : wrappers[v].live}}

\* The idle callback runs pruneNodeCache on the Map of the node.  derefs is
\* what nodeCache.deref() gives: a Map no wrapper reaches may be gone.
Prune(node, derefs) ==
  /\ node \in idle
  /\ derefs \/ node \notin Reachable
  /\ idle' = idle \ {node}
  /\ nodes' = IF derefs
              THEN [nodes EXCEPT ![node].cache = pruneNodeCache(@, reclaimed)]
              ELSE nodes
  /\ UNCHANGED observer
  /\ UNCHANGED <<wrappers, cacheInstances, isSystemMemoryConstrained, observing,
                 sample, reclaimed, registered, allocs, calls, stored, last>>

\* ------------------------------------------------------------- memory samples
RootLive(root) ==
  \E w \in 1..Len(wrappers) : wrappers[w].root = root /\ wrappers[w].live

\* flushCaches: an entry whose root is gone is left in place (the delete is
\* given the undefined deref, not the entry); the first live root is assigned
\* to, a const binding, which throws a TypeError.
flushCachesThrows == \E i \in 1..Len(cacheInstances) : RootLive(cacheInstances[i])

\* notify: the observer's callback on a sample, then the next idle callback.
\* When the callback throws, neither the flag nor the next callback is set.
Sample(s) ==
  /\ observing
  /\ sample' = s
  /\ LET rising == risingEdge(s, isSystemMemoryConstrained)
         threw == rising /\ flushCachesThrows
     IN /\ isSystemMemoryConstrained' =
             IF threw THEN isSystemMemoryConstrained ELSE shouldBeConstrained(s)
        /\ observing' = ~threw
        /\ last' = IF rising THEN [last EXCEPT !.quiet = FALSE] ELSE last
  /\ UNCHANGED observer
  /\ UNCHANGED <<nodes, wrappers, cacheInstances, reclaimed, registered, idle,
                 allocs, calls, stored>>

Next ==
  \/ \E opts \in Options : Memoize(opts)
  \/ \E w \in WrapperIds : Release(w)
  \/ \E w \in WrapperIds, args \in ArgTuples : Call(w, args)
  \/ \E o \in Objects : Reclaim(o)
  \/ \E node \in idle, derefs \in BOOLEAN : Prune(node, derefs)
  \/ \E s \in Samples : Sample(s)

Spec == Init /\ [][Next]_vars

\* ------------------------------------------------- a MemoryObserver in use
\* What the callback given to new MemoryObserver does with a sample: it
\* returns, or it calls disconnect() on its observer first.
Callbacks == {"return", "disconnect"}

\* window.cancelIdleCallback(cancelToken): the idle callback of the token, if
\* it is still to run, is dropped.
cancelIdleCallback(pending, token) == pending \ {token}

\* notify: the callback runs, then the next idle callback is asked for and
\* its token kept.  o is the observer as notify finds it.
notify(o, cb) ==
  [o EXCEPT
     !.pending = (IF cb = "disconnect"
                  THEN cancelIdleCallback(o.pending, o.cancelToken)
                  ELSE o.pending) \cup {o.issued + 1},
     !.cancelToken = o.issued + 1,
     !.issued = o.issued + 1,
     !.stopped = o.stopped \/ cb = "disconnect",
     !.resumed = o.resumed \/ o.stopped]

\* observer.observe(): notify, called by the caller.
Observe(cb) ==
  /\ observer.issued < MaxTokens
  /\ observer' = notify([observer EXCEPT !.stopped = FALSE], cb)
  /\ UNCHANGED <<nodes, wrappers, cacheInstances, isSystemMemoryConstrained,
                 observing, sample, reclaimed, registered, idle, allocs, calls,
                 stored, last>>

\* The idle callback of a token runs notify.
Idle(token, cb) ==
  /\ token \in observer.pending
  /\ observer.issued < MaxTokens
  /\ observer' = notify([observer EXCEPT !.pending = @ \ {token}], cb)
  /\ UNCHANGED <<nodes, wrappers, cacheInstances, isSystemMemoryConstrained,
                 observing, sample, reclaimed, registered, idle, allocs, calls,
                 stored, last>>

\* observer.disconnect(), called by the caller.
Disconnect ==
  /\ observer' = [observer EXCEPT
                    !.pending = cancelIdleCallback(@, observer.cancelToken),
                    !.stopped = TRUE]
  /\ UNCHANGED <<nodes, wrappers, cacheInstances, isSystemMemoryConstrained,
                 observing, sample, reclaimed, registered, idle, allocs, calls,
                 stored, last>>

NextObserver ==
  \/ \E cb \in Callbacks : Observe(cb)
  \/ \E token \in 1..MaxTokens, cb \in Callbacks : Idle(token, cb)
  \/ Disconnect

SpecObserver == Init /\ [][NextObserver]_vars

\* The nodes a program can create: a root, and a node per key of each call.
NodeIds == 1..(1 + 2 * MaxCalls)
\* The programs whose calls pass an object as a key at the root or below it,
\* with the default and with the README's comparator.
LiveOptions == {opts \in Options : opts.hash = "none" /\ opts.select = "none"}
LiveTuples == { <<Dog1>>, <<Dog2>>, <<PrimX, Dog1>> }
NextLive ==
  \/ \E opts \in LiveOptions : Memoize(opts)
  \/ \E w \in WrapperIds : Release(w)
  \/ \E w \in WrapperIds, args \in LiveTuples : Call(w, args)
  \/ \E o \in Objects : Reclaim(o)
  \/ \E node \in idle, derefs \in BOOLEAN : Prune(node, derefs)
  \/ \E s \in Samples : Sample(s)
\* These programs when every idle callback that was asked for is run.
FairSpec ==
  /\ Init
  /\ [][NextLive]_vars
  /\ \A n \in NodeIds : WF_vars(\E derefs \in BOOLEAN : Prune(n, derefs))

\* The programs with two wrapped functions.
NextWide ==
  \/ \E opts \in WideOptions : MemoizeIn(WideWrapperIds, opts)
  \/ \E w \in WideWrapperIds : Release(w)
  \/ \E w \in WideWrapperIds, args \in WideTuples : Call(w, args)
  \/ \E o \in Objects : Reclaim(o)
  \/ \E node \in idle, derefs \in BOOLEAN : Prune(node, derefs)
  \/ \E s \in WideSamples : Sample(s)

SpecWide == Init /\ [][NextWide]_vars

\* ------------------------------------------------------------------- claims
\* What a lookup of the key path on the wrapper gives in this state.
Lookup(w, keys) ==
  getValueAt(nodes, wrappers[w].root, wrappers[w].compare, keys, reclaimed)

\* C1: in normal memory mode, with no pressure flush and no reclamation in
\* between, a call whose arguments equal, pairwise under the configured
\* compare, those of the call before it on the same wrapper (which returned)
\* does not invoke fn and returns that call's result: fn runs at most once.
C1_RepeatedCallIsHit ==
  last.rep => (~last.invoked /\ last.out = "hit" /\ last.ret = last.prevRet)

C3_FailureIsNotCached ==
  [][calls' = calls + 1 =>
       /\ last'.out = "fnError" =>
            (last'.invoked /\ nodes' = nodes /\ registered' = registered)
       /\ (last.out = "fnError" /\ last'.w = last.w /\ last'.keys = last.keys)
            => last'.invoked]_vars

\* The result is one fn yields for arguments whose key path equals the
\* call's under the wrapper's compare.
Correct(W, args, ret) ==
  \E a \in ArgTuples :
    /\ InDomain(W, a)
    /\ ~FnThrows(a)
    /\ PairwiseEqual(W.compare, KeyPath(W, a), KeyPath(W, args))
    /\ ret.k = FnResult(a, 0).k
    /\ ret.n = FnResult(a, 0).n

\* C4: in every memory mode a call either returns the value fn yields for
\* its arguments (computed or cached) or raises the error fn raised; the
\* memoizer raises no error of its own and returns no incorrect result.
C4_Transparent ==
  /\ last.out \in {"none", "hit", "miss", "fnError"}
  /\ last.out \in {"hit", "miss"} => Correct(wrappers[last.w], last.args, last.ret)
  /\ last.out = "fnError" => FnThrows(last.args)

Intact(e) ==
  /\ \A i \in 1..Len(e.keys) : e.keys[i] \notin reclaimed
  /\ e.value \notin reclaimed

\* C6: with a custom compare, a call whose key path matches a stored key path
\* level by level under that compare (stored key first) is a hit that returns
\* the stored result without invoking fn.
C6_CustomCompareHit ==
  (last.out # "none" /\ last.quiet /\ wrappers[last.w].compare = "type") =>
    \A e \in last.seen :
      (e.w = last.w /\ Intact(e) /\ PairwiseEqual("type", e.keys, last.keys))
        => (last.out = "hit" /\ ~last.invoked /\ last.ret = e.value)

\* C7: when a sample at or above 0.8 arrives in normal mode, every entry
\* cached on a live wrapper is cleared: right after the sample a lookup of
\* any previously stored key path is a miss.
C7_RisingEdgeFlushes ==
  [][(sample' # sample /\ shouldBeConstrained(sample') /\ ~isSystemMemoryConstrained)
       => \A e \in stored :
            wrappers[e.w].live =>
              getValueAt(nodes', wrappers[e.w].root, wrappers[e.w].compare,
                         e.probe, reclaimed') = NO_VALUE]_vars

\* C8: in constrained mode an insertion first resets the wrapper's root, so
\* after a call that missed the call's key path is retrievable and every
\* other key path stored on the wrapper is a miss.
C8_ConstrainedKeepsLast ==
  (last.constrained /\ last.invoked /\ ~FnThrows(last.args) /\ last.quiet)
    => /\ last.out = "miss"
       /\ Lookup(last.w, last.keys) = last.ret
       /\ \A e \in stored :
            (e.w = last.w /\ e.probe # last.keys) => Lookup(e.w, e.probe) = NO_VALUE

\* The keys a lookup may probe with.
ProbeKeys == ArgVals \cup {Prim("dog")}

\* C9: an entry whose key object is reclaimed matches no probe key, undefined
\* included, under any compare, and no lookup or insertion passes through it.
C9_DeadKeyNeverMatches ==
  /\ ~last.viaDead
  /\ \A n \in 1..Len(nodes) : \A i \in 1..Len(nodes[n].cache) :
       LET e == nodes[n].cache[i]
       IN (isWeakRef(e.k) /\ Referent(e.k) \in reclaimed) =>
            \A key \in ProbeKeys, c \in {"ref", "type"} :
              MatchFrom(nodes[n].cache, 1, key, c, reclaimed) # i

\* C10: a lookup that reaches a leaf whose stored result is reclaimed is a
\* miss: fn is invoked again and its result returned.
C10_DeadValueIsMiss ==
  last.deadLeaf =>
    /\ last.invoked
    /\ last.out \in {"miss", "fnError", "TypeError"}
    /\ last.out = "miss" => last.ret.k # "undefined"


\* C11: every object or function used as a key of a child collection, and
\* every object or function stored as a result, is held through a weak
\* handle: only primitives are stored directly.
C11_OnlyWeakHandles ==
  \A n \in 1..Len(nodes) :
    /\ nodes[n].value.k \notin {"object", "array", "function"}
    /\ \A i \in 1..Len(nodes[n].cache) :
         nodes[n].cache[i].k.k \notin {"object", "array", "function"}

\* The key paths a lookup on a wrapper of the two-wrapper programs may take.
WideProbes == WideTuples \cup {<<Dog2>>, <<PrimX>>}

\* C13: each memoize call creates a new empty root of its own and appends one
\* entry for it to the cache registry, leaving every other wrapper as it was;
\* in normal mode a call on one wrapper changes the outcome of no lookup on
\* another wrapper.
C13_WrappersAreIndependent ==
  [][/\ Len(wrappers') = Len(wrappers) + 1 =>
          LET root == wrappers'[Len(wrappers')].root
          IN /\ \A w \in 1..Len(wrappers) :
                  /\ wrappers'[w] = wrappers[w]
                  /\ root \notin SubTree(nodes', wrappers[w].root)
                  /\ \A keys \in WideProbes :
                       getValueAt(nodes', wrappers'[w].root, wrappers'[w].compare,
                                  keys, reclaimed') = Lookup(w, keys)
             /\ nodes'[root] = createNode
             /\ cacheInstances' = Append(cacheInstances, root)
     /\ (calls' = calls + 1 /\ ~isSystemMemoryConstrained) =>
          \A w \in 1..Len(wrappers) :
            w # last'.w =>
              \A keys \in WideProbes :
                getValueAt(nodes', wrappers'[w].root, wrappers'[w].compare,
                           keys, reclaimed') = Lookup(w, keys)]_vars
\* The second wrapper missed on a key path the first wrapper has stored, and
\* the first wrapper still has it.
C13_Witness ==
  /\ last.w = 2
  /\ last.out = "miss"
  /\ ~last.constrained
  /\ last.keys = <<Dog1>>
  /\ \E e \in last.seen : e.w = 1 /\ e.probe = <<Dog1>>
  /\ Lookup(1, <<Dog1>>) # NO_VALUE

\* C14: a wrapper made with no options object, or with values for hash,
\* select and compare that are not functions, is the wrapper made with the
\* options absent: its key path is the argument list, compared by identity.
C14_NonFunctionOptionsIgnored ==
  \A w \in 1..Len(wrappers) :
    LET W == wrappers[w]
    IN (W.opts.hash # "function" /\ W.opts.select # "function"
          /\ W.opts.compare # "function")
         => /\ ~W.hash /\ ~W.select /\ W.compare = "ref"
            /\ (last.out # "none" /\ last.w = w) =>
                 /\ last.keys = last.args
                 /\ last.out = "hit" =>
                      \E e \in last.seen : e.w = w /\ e.probe = last.args
\* A call on a wrapper made with a string for hash stored its result.
C14_Witness ==
  /\ last.out = "miss"
  /\ wrappers[last.w].opts.hash = "string"
  /\ last.args = <<Dog1>>


\* C15: after the observer's callback has processed a heap sample, the mode
\* flag is the mode of that sample: constrained exactly when the sample's
\* ratio is at least 0.8, however many wrappers are registered.
C15_ModeFollowsSample ==
  isSystemMemoryConstrained = shouldBeConstrained(sample)

\* C16: a sample below 0.8 sets the flag to normal and leaves every cache
\* tree and the registry as they were; a sample at or above 0.8 that arrives
\* in constrained mode keeps the flag and flushes nothing.
C16_OnlyRisingEdgeFlushes ==
  [][(sample' # sample
        /\ (~shouldBeConstrained(sample') \/ isSystemMemoryConstrained))
       => /\ isSystemMemoryConstrained' = shouldBeConstrained(sample')
          /\ nodes' = nodes
          /\ cacheInstances' = cacheInstances
          /\ wrappers' = wrappers
          /\ registered' = registered
          /\ observing' = observing]_vars
\* The last call saw constrained mode, a sample below 0.8 has arrived since,
\* and a result stored before is still in its tree.
C16_Witness ==
  /\ last.out # "none"
  /\ last.constrained
  /\ last.quiet
  /\ ~isSystemMemoryConstrained
  /\ ~shouldBeConstrained(sample)
  /\ \E e \in stored : Lookup(e.w, e.probe) = e.value

\* The entries of a Map, as a set.
Entries(cache) == {cache[i] : i \in 1..Len(cache)}
\* The position of an entry in a Map.
Position(cache, e) == CHOOSE i \in 1..Len(cache) : cache[i] = e

\* C17: a pruning pass on a Map removes exactly the entries whose key is a
\* weak handle with a reclaimed referent, in place: every other entry stays,
\* in its order, no stored value and no other node changes, and the same
\* pass run again removes nothing.  A Map that is itself gone is not touched.
C17_PruneRemovesExactlyDeadKeys ==
  [][(idle' # idle /\ idle' \subseteq idle) =>
       LET n == CHOOSE m \in idle : m \notin idle'
           old == nodes[n].cache
           new == nodes'[n].cache
       IN /\ Len(nodes') = Len(nodes)
          /\ \A m \in 1..Len(nodes) : m # n => nodes'[m] = nodes[m]
          /\ nodes'[n].value = nodes[n].value
          /\ reclaimed' = reclaimed
          /\ \/ n \notin Reachable /\ new = old
             \/ /\ Entries(new) =
                     {e \in Entries(old) :
                        ~(isWeakRef(e.k) /\ Referent(e.k) \in reclaimed)}
                /\ Len(new) = Cardinality(Entries(new))
                /\ \A i, j \in 1..Len(new) :
                     i < j => Position(old, new[i]) < Position(old, new[j])
                /\ pruneNodeCache(new, reclaimed') = new]_vars
\* A reachable Map has been pruned of the entry of a reclaimed key and still
\* holds an entry whose key is not reclaimed.
C17_Witness ==
  \E r \in registered :
    /\ r[1] \in reclaimed
    /\ r[2] \notin idle
    /\ r[2] \in Reachable
    /\ \A e \in Entries(nodes[r[2]].cache) : e.k # WeakRef(r[1])
    /\ nodes[r[2]].cache # <<>>

\* C19: when a global flush has run, no entry of the cache registry is one
\* whose root has been reclaimed.
C19_FlushDropsDeadRoots ==
  [][(sample' # sample /\ risingEdge(sample', isSystemMemoryConstrained)
        /\ ~flushCachesThrows)
       => \A i \in 1..Len(cacheInstances') : RootLive(cacheInstances'[i])]_vars

\* C20: in normal mode, with the default comparator and nothing reclaimed, a
\* call leaves the result of every key path stored before retrievable and
\* unchanged, and a hit changes nothing in the tree.
C20_InsertionLeavesOtherPaths ==
  [][(calls' = calls + 1 /\ ~isSystemMemoryConstrained /\ reclaimed = {}
        /\ wrappers[last'.w].compare = "ref")
       => /\ \A e \in stored :
               /\ Lookup(e.w, e.probe) = e.value
               /\ getValueAt(nodes', wrappers'[e.w].root, wrappers'[e.w].compare,
                             e.probe, reclaimed') = e.value
          /\ last'.out = "hit" => (nodes' = nodes /\ registered' = registered)]_vars
\* A call stored the extension of a stored key path, and the result of the
\* shorter path is still retrievable.
C20_Witness ==
  /\ last.out = "miss"
  /\ ~last.constrained
  /\ reclaimed = {}
  /\ wrappers[last.w].compare = "ref"
  /\ last.keys = <<Dog1, PrimX>>
  /\ \E e \in last.seen :
       e.w = last.w /\ e.probe = <<Dog1>> /\ Lookup(e.w, e.probe) = e.value


\* The Map of the node holds an entry keyed by the reclaimed object.
DeadEntry(n, o) ==
  /\ n <= Len(nodes)
  /\ o \in reclaimed
  /\ \E e \in Entries(nodes[n].cache) : e.k = WeakRef(o)
\* The branch of the object is gone from the Map of the node (or the Map is
\* gone), and a lookup there with an object that has no entry of its own is
\* a miss under either comparator.
BranchGone(n, o) ==
  \/ n \notin Reachable
  \/ /\ \A e \in Entries(nodes[n].cache) : e.k # WeakRef(o)
     /\ \A q \in {Dog1, Dog2} \ reclaimed, c \in {"ref", "type"} :
          (compareByType(o, q)
             /\ \A e \in Entries(nodes[n].cache) : e.k # WeakRef(q))
            => getNode(nodes, n, q, c, reclaimed) = 0

\* C12: when every idle callback is eventually run, an entry whose key
\* object has been reclaimed is eventually removed from its Map by a pruning
\* pass, and from then on a lookup there with a fresh object, even one equal
\* to the reclaimed one under compare, is a miss.
C12_DeadBranchIsPruned ==
  \A n \in NodeIds : \A o \in {Dog1, Dog2} :
    DeadEntry(n, o) ~> [] BranchGone(n, o)
\* The Map of a live wrapper that compares by type has been pruned of the
\* reclaimed object's entry, and the other object of that type misses there.
C12_Witness ==
  \E w \in 1..Len(wrappers) :
    /\ wrappers[w].live
    /\ wrappers[w].compare = "type"
    /\ <<Dog1, wrappers[w].root>> \in registered
    /\ Dog1 \in reclaimed
    /\ Dog2 \notin reclaimed
    /\ wrappers[w].root \notin idle
    /\ \A e \in Entries(nodes[wrappers[w].root].cache) : e.k # WeakRef(Dog1)
    /\ Lookup(w, <<Dog2>>) = NO_VALUE


\* C18: once disconnect() has been called, from the caller or from inside
\* the sampling callback, the callback is not invoked again unless observe()
\* is called again.
C18_DisconnectStopsSampling == ~observer.resumed

====
